---- MODULE Spec2Model ----
(***************************************************************************)
(* Model of the NomoraPaw backend: OpenRouterService                       *)
(* (backend/services/openai_service.py) and the two HTTP handlers of       *)
(* backend/main.py that call it.                                           *)
(*                                                                         *)
(* Python strings are modelled as sequences of one-character strings, so   *)
(* that sorting, joining and formatting are computed, not assumed.         *)
(* Every coroutine runs atomically between two suspension points (asyncio  *)
(* is cooperative): the only suspension points of a generate call are the  *)
(* outbound POST and the retry sleep.                                      *)
(***************************************************************************)
EXTENDS Integers, Sequences, FiniteSets, TLC

VARIABLES
    lifespan,     \* main.py lifespan: "new", "failed", "up", "down"
    config,       \* self.config of the service, NoConfig while there is none
    max_retries,  \* OpenRouterConfig.max_retries
    client,       \* self.client is not None
    opened,       \* number of httpx.AsyncClient objects created so far
    released,     \* number of aclose() calls made so far
    clock,        \* time.time()
    cache,        \* self.cache: key -> [data, timestamp]
    pc,           \* per task: "idle", "inflight", "backoff", "done"
    call,         \* per task: [via, req] of the running handler
    cache_key,    \* per task: the local cache_key of generate_pet_names
    dispatches,   \* per task: outbound POSTs issued by the current call
    trace,        \* per task: what the remote answered to each attempt
    waits,        \* per task: the backoff waits slept by the current call
    look,         \* per task: what the cache lookup of the current call saw
    result,       \* per task: what the handler answered
    stored        \* history: key -> [data, time] of the latest store under it

vars == <<lifespan, config, max_retries, client, opened, released, clock, cache, pc,
          call, cache_key, dispatches, trace, waits, look, result, stored>>

Tasks == {"t1", "t2"}

(***************************************************************************)
(* Strings                                                                 *)
(***************************************************************************)
Letters == <<"a", "b", "c", "d", "e", "f", "g", "h", "i", "j", "k", "l", "m",
             "n", "o", "p", "q", "r", "s", "t", "u", "v", "w", "x", "y", "z">>

Digits == <<"0", "1", "2", "3", "4", "5", "6", "7", "8", "9">>

\* ord(c) for the characters the model uses
Code(c) ==
    IF c = " " THEN 32
    ELSE IF c = "," THEN 44
    ELSE IF \E i \in 1..10 : Digits[i] = c
         THEN 47 + (CHOOSE i \in 1..10 : Digits[i] = c)
    ELSE IF c = ":" THEN 58
    ELSE 96 + (CHOOSE i \in 1..26 : Letters[i] = c)

\* a < b for Python str: lexicographic by code point, a proper prefix first
RECURSIVE StrLess(_, _)
StrLess(a, b) ==
    IF b = <<>> THEN FALSE
    ELSE IF a = <<>> THEN TRUE
    ELSE IF Code(Head(a)) # Code(Head(b)) THEN Code(Head(a)) < Code(Head(b))
    ELSE StrLess(Tail(a), Tail(b))

\* insert string x into the sorted sequence s
RECURSIVE Insert(_, _)
Insert(x, s) ==
    IF s = <<>> THEN <<x>>
    ELSE IF StrLess(x, Head(s)) THEN <<x>> \o s
    ELSE <<Head(s)>> \o Insert(x, Tail(s))

\* sorted(seq) on a list of str
RECURSIVE Sorted(_)
Sorted(s) == IF s = <<>> THEN <<>> ELSE Insert(Head(s), Sorted(Tail(s)))

\* sep.join(parts)
RECURSIVE Join(_, _)
Join(sep, parts) ==
    IF parts = <<>> THEN <<>>
    ELSE IF Len(parts) = 1 THEN Head(parts)
    ELSE Head(parts) \o sep \o Join(sep, Tail(parts))

\* str(n) of a non-negative int
RECURSIVE Str(_)
Str(n) == IF n < 10 THEN <<Digits[n + 1]>>
          ELSE Str(n \div 10) \o <<Digits[(n % 10) + 1]>>

\* text.strip() (spaces are the only whitespace the model uses)
RECURSIVE LStrip(_)
LStrip(s) == IF s # <<>> /\ Head(s) = " " THEN LStrip(Tail(s)) ELSE s

RECURSIVE RStrip(_)
RStrip(s) == IF s # <<>> /\ s[Len(s)] = " "
             THEN RStrip(SubSeq(s, 1, Len(s) - 1)) ELSE s

Strip(s) == RStrip(LStrip(s))

Max(a, b) == IF a > b THEN a ELSE b
Min(a, b) == IF a < b THEN a ELSE b

RECURSIVE Pow2(_)
Pow2(n) == IF n <= 0 THEN 1 ELSE 2 * Pow2(n - 1)

(***************************************************************************)
(* Program constants                                                       *)
(***************************************************************************)
CacheTTL == 3600          \* self._cache_ttl
MaxAttempts == 3          \* stop_after_attempt(3)
WaitMultiplier == 1       \* wait_exponential(multiplier=1, ...)
WaitMin == 4              \* wait_exponential(..., min=4, ...)
WaitMax == 10             \* wait_exponential(..., max=10)
MinNames == 1             \* num_names < 1
MaxNames == 10            \* num_names > 10
DefaultMaxRetries == 3
TemperatureMax == 2
TopPMax == 1
MaxTokensMin == 1
MaxTokensMax == 4096    \* OpenRouterConfig.max_retries default

(***************************************************************************)
(* Bounds of the model                                                     *)
(***************************************************************************)
MaxClock == 7200          \* the last instant the clock is sampled at
MaxRetriesCfg == 5        \* the largest configured max_retries tried

\* the instants at which the clock is observed: both sides of the TTL
ClockValues == {0, CacheTTL - 1, CacheTTL, MaxClock}

(***************************************************************************)
(* Exceptions                                                              *)
(***************************************************************************)
NoExc == "None"

\* the direct base class of each exception class the program can see
BaseOf(cls) ==
    CASE cls = "AuthenticationError" -> "OpenRouterError"
      [] cls = "RateLimitError"      -> "OpenRouterError"
      [] cls = "QuotaExceededError"  -> "OpenRouterError"
      [] cls = "ModelError"          -> "OpenRouterError"
      [] cls = "OpenRouterError"     -> "Exception"
      [] cls = "JSONDecodeError"     -> "ValueError"
      [] cls = "ValueError"          -> "Exception"
      [] cls = "KeyError"            -> "Exception"
      [] cls = "RequestError"        -> "Exception"
      [] cls = "RetryError"          -> "Exception"
      [] OTHER                       -> "BaseException"

\* isinstance(exc, cls), exc given by its class
RECURSIVE IsInstance(_, _)
IsInstance(exc, cls) ==
    IF exc = NoExc THEN FALSE
    ELSE IF exc = cls THEN TRUE
    ELSE IF exc = "BaseException" THEN FALSE
    ELSE IsInstance(BaseOf(exc), cls)

(***************************************************************************)
(* Configuration: the environment, OpenRouterConfig and its validation     *)
(*                                                                         *)
(* A float is [nan, v] with v in tenths; an environment gives each         *)
(* variable its text or Unset.                                             *)
(***************************************************************************)
Float(tenths) == [nan |-> FALSE, v |-> tenths]
NaN == [nan |-> TRUE, v |-> 0]

\* a < b on floats: false when either side is NaN
FloatLess(a, b) == ~a.nan /\ ~b.nan /\ a.v < b.v

\* os.getenv(name) of a variable that is not set
Unset == "<unset>"

\* os.getenv(name, default)
GetEnv(text, default) == IF text = Unset THEN default ELSE text

\* float(text): the value, or the ValueError of a text that is no number
ParseFloat(text) ==
    CASE text = "-0.1" -> [exc |-> NoExc, value |-> Float(-1)]
      [] text = "0" -> [exc |-> NoExc, value |-> Float(0)]
      [] text = "0.8" -> [exc |-> NoExc, value |-> Float(8)]
      [] text = "0.9" -> [exc |-> NoExc, value |-> Float(9)]
      [] text = "1" -> [exc |-> NoExc, value |-> Float(10)]
      [] text = "1.1" -> [exc |-> NoExc, value |-> Float(11)]
      [] text = "2" -> [exc |-> NoExc, value |-> Float(20)]
      [] text = "2.1" -> [exc |-> NoExc, value |-> Float(21)]
      [] text = "nan" -> [exc |-> NoExc, value |-> NaN]
      [] OTHER -> [exc |-> "ValueError", value |-> NaN]

\* int(text): the value, or the ValueError of a text that is no integer
ParseInt(text) ==
    CASE text = "0" -> [exc |-> NoExc, value |-> 0]
      [] text = "1" -> [exc |-> NoExc, value |-> 1]
      [] text = "1000" -> [exc |-> NoExc, value |-> 1000]
      [] text = "4096" -> [exc |-> NoExc, value |-> 4096]
      [] text = "4097" -> [exc |-> NoExc, value |-> 4097]
      [] OTHER -> [exc |-> "ValueError", value |-> 0]

NoConfig == [api_key |-> "", max_tokens |-> 0, temperature |-> NaN, top_p |-> NaN]

\* _create_config_from_env: the exception raised (NoExc on return) and the
\* OpenRouterConfig returned
CreateConfigFromEnv(env) ==
    LET max_tokens == ParseInt(GetEnv(env.OPENROUTER_MAX_TOKENS, "1000"))
        temperature == ParseFloat(GetEnv(env.OPENROUTER_TEMPERATURE, "0.8"))
        top_p == ParseFloat(GetEnv(env.OPENROUTER_TOP_P, "0.9"))
    IN
    IF env.OPENROUTER_API_KEY = Unset \/ env.OPENROUTER_API_KEY = ""
    THEN [exc |-> "ValueError", config |-> NoConfig]
    ELSE IF max_tokens.exc # NoExc \/ temperature.exc # NoExc \/ top_p.exc # NoExc
    THEN [exc |-> "ValueError", config |-> NoConfig]
    ELSE [exc |-> NoExc,
          config |-> [api_key |-> env.OPENROUTER_API_KEY,
                      max_tokens |-> max_tokens.value,
                      temperature |-> temperature.value,
                      top_p |-> top_p.value]]

\* _validate_config: the exception raised (NoExc on return)
ValidateConfig(cfg) ==
    IF cfg.api_key = "" THEN "ValueError"
    ELSE IF FloatLess(cfg.temperature, Float(0))
            \/ FloatLess(Float(TemperatureMax * 10), cfg.temperature)
    THEN "ValueError"
    ELSE IF FloatLess(cfg.top_p, Float(0))
            \/ FloatLess(Float(TopPMax * 10), cfg.top_p)
    THEN "ValueError"
    ELSE IF cfg.max_tokens < MaxTokensMin \/ cfg.max_tokens > MaxTokensMax
    THEN "ValueError"
    ELSE NoExc

\* OpenRouterService() without a config argument: the exception that leaves
\* __init__ (NoExc on return) and the config of the instance
Construct(env) ==
    LET made == CreateConfigFromEnv(env) IN
    IF made.exc # NoExc THEN made
    ELSE IF ValidateConfig(made.config) # NoExc
    THEN [exc |-> ValidateConfig(made.config), config |-> NoConfig]
    ELSE made

(***************************************************************************)
(* Cache                                                                   *)
(***************************************************************************)
\* a cache key that joins the traits in the order given
MutGetCacheKeyUnsorted(animal, traits, theme, num_names) ==
    animal \o <<":">> \o Join(<<",">>, traits) \o <<":">> \o theme
           \o <<":">> \o Str(num_names)

\* f"{animal}:{traits_str}:{theme}:{num_names}" with traits sorted and joined
GetCacheKey(animal, traits, theme, num_names) ==
    animal \o <<":">> \o Join(<<",">>, Sorted(traits)) \o <<":">> \o theme
           \o <<":">> \o Str(num_names)

\* a validity test that still accepts an entry whose age equals the TTL
MutIsCacheValidInclusive(cache_entry, now) ==
    now - cache_entry.timestamp <= CacheTTL

IsCacheValid(cache_entry, now) == now - cache_entry.timestamp < CacheTTL

\* a lookup with the validity test inverted
MutGetFromCacheInverted(c, key, now) ==
    IF key \in DOMAIN c
    THEN IF ~IsCacheValid(c[key], now)
         THEN [found |-> TRUE, data |-> c[key].data, cache |-> c]
         ELSE [found |-> FALSE, data |-> <<>>,
               cache |-> [k \in DOMAIN c \ {key} |-> c[k]]]
    ELSE [found |-> FALSE, data |-> <<>>, cache |-> c]

\* the value returned (found, data) and the cache left behind
GetFromCache(c, key, now) ==
    IF key \in DOMAIN c
    THEN IF IsCacheValid(c[key], now)
         THEN [found |-> TRUE, data |-> c[key].data, cache |-> c]
         ELSE [found |-> FALSE, data |-> <<>>,
               cache |-> [k \in DOMAIN c \ {key} |-> c[k]]]
    ELSE [found |-> FALSE, data |-> <<>>, cache |-> c]

\* a store that adds the results to the ones already under the key
MutSaveToCacheMerge(c, key, data, now) ==
    [k \in DOMAIN c \cup {key} |->
        IF k = key
        THEN [data |-> (IF key \in DOMAIN c THEN c[key].data ELSE <<>>) \o data,
              timestamp |-> now]
        ELSE c[k]]

SaveToCache(c, key, data, now) ==
    [k \in DOMAIN c \cup {key} |->
        IF k = key THEN [data |-> data, timestamp |-> now] ELSE c[k]]

(***************************************************************************)
(* Request dispatch: error classification and the retry policy             *)
(***************************************************************************)
\* the class _handle_api_error raises for a status code
HandleApiError(status_code) ==
    IF status_code = 401 THEN "AuthenticationError"
    ELSE IF status_code = 429 THEN "RateLimitError"
    ELSE IF status_code = 402 THEN "QuotaExceededError"
    ELSE IF 400 <= status_code /\ status_code < 500 THEN "ModelError"
    ELSE "OpenRouterError"

\* one execution of the body of _make_api_request on the remote's answer:
\* the exception that leaves it (NoExc on return) and the content returned
MakeApiRequestOnce(resp) ==
    IF resp.kind = "neterr"
    THEN \* httpx.RequestError is caught inside and re-raised as OpenRouterError
         [exc |-> "OpenRouterError", content |-> resp.content]
    ELSE IF resp.status # 200
    THEN [exc |-> HandleApiError(resp.status), content |-> resp.content]
    ELSE IF resp.envelope = "undecodable"
    THEN [exc |-> "JSONDecodeError", content |-> resp.content]
    ELSE IF resp.envelope = "missing"
    THEN [exc |-> "KeyError", content |-> resp.content]
    ELSE [exc |-> NoExc, content |-> resp.content]

\* a retry predicate that retries every error of the service's own hierarchy
MutRetryIfServiceError(exc) == IsInstance(exc, "OpenRouterError")

\* retry=retry_if_exception_type((httpx.RequestError, RateLimitError))
RetryIf(exc) == IsInstance(exc, "RequestError") \/ IsInstance(exc, "RateLimitError")

\* a stop condition that honours the configured max_retries
MutStopAfterConfigured(attempt_number, cfg_max_retries) ==
    attempt_number >= cfg_max_retries + 1

\* stop=stop_after_attempt(3)
StopAfterAttempt(attempt_number, cfg_max_retries) == attempt_number >= MaxAttempts

\* an exponential wait without the floor
MutWaitExponentialNoFloor(attempt_number) ==
    Min(WaitMultiplier * Pow2(attempt_number - 1), WaitMax)

\* wait=wait_exponential(multiplier=1, min=4, max=10)
WaitExponential(attempt_number) ==
    Max(Max(0, WaitMin), Min(WaitMultiplier * Pow2(attempt_number - 1), WaitMax))

(***************************************************************************)
(* Response parser                                                         *)
(*                                                                         *)
(* The remote text is a sequence of characters in which a whole JSON       *)
(* document counts as one symbol (its text, written without the double    *)
(* quotes).  A parsed item is [isDict, hasName, hasReason, name, reason].  *)
(***************************************************************************)
\* the character U+0060 of a code fence, by name
Backtick == "backtick"

Fence == <<Backtick, Backtick, Backtick>>
JsonFence == Fence \o <<"j", "s", "o", "n">>

\* str.startswith, str.endswith
StartsWith(s, prefix) ==
    Len(s) >= Len(prefix) /\ SubSeq(s, 1, Len(prefix)) = prefix

EndsWith(s, suffix) ==
    Len(s) >= Len(suffix) /\ SubSeq(s, Len(s) - Len(suffix) + 1, Len(s)) = suffix

\* the clean-up of _parse_response before json.loads
Unfence(content) ==
    LET stripped == Strip(content)
        opened_ == IF StartsWith(stripped, JsonFence)
                   THEN SubSeq(stripped, 8, Len(stripped))       \* content[7:]
                   ELSE stripped
        closed_ == IF EndsWith(opened_, Fence)
                   THEN SubSeq(opened_, 1, Len(opened_) - 3)     \* content[:-3]
                   ELSE opened_
    IN Strip(closed_)

Item(isDict, hasName, hasReason, name, reason) ==
    [isDict |-> isDict, hasName |-> hasName, hasReason |-> hasReason,
     name |-> name, reason |-> reason]

Rex == Item(TRUE, TRUE, TRUE, <<" ", "r", "e", "x">>, <<"s">>)
Max1 == Item(TRUE, TRUE, TRUE, <<"m", "a", "x">>, <<"b", " ">>)
NoReason == Item(TRUE, TRUE, FALSE, <<"r", "e", "x">>, <<>>)
NoName == Item(TRUE, FALSE, TRUE, <<>>, <<"s">>)
NotDict == Item(FALSE, FALSE, FALSE, <<>>, <<>>)

JsonArray(items) == [kind |-> "array", items |-> items]
JsonObject == [kind |-> "object", items |-> <<>>]

\* the JSON documents of the model and the values json.loads gives for them
DocRex == "[{name:  rex, reason: s}]"
DocNoReasonMax == "[{name: rex}, {name: max, reason: b }]"
DocNoReason == "[{name: rex}]"
DocMaxRex == "[{name: max, reason: b }, {name:  rex, reason: s}]"
DocMixed == "[rex, {name:  rex, reason: s}, {reason: s}, {name: max, reason: b }]"
DocEmpty == "[]"
DocObject == "{name:  rex, reason: s}"

Documents ==
    {DocRex, DocNoReasonMax, DocNoReason, DocMaxRex, DocMixed, DocEmpty, DocObject}

JsonValue(doc) ==
    CASE doc = DocRex -> JsonArray(<<Rex>>)
      [] doc = DocNoReasonMax -> JsonArray(<<NoReason, Max1>>)
      [] doc = DocNoReason -> JsonArray(<<NoReason>>)
      [] doc = DocMaxRex -> JsonArray(<<Max1, Rex>>)
      [] doc = DocMixed -> JsonArray(<<NotDict, Rex, NoName, Max1>>)
      [] doc = DocEmpty -> JsonArray(<<>>)
      [] doc = DocObject -> JsonObject

\* json.loads: a value for exactly one document with blanks around it, a
\* JSONDecodeError for every other text
JsonLoads(text) ==
    IF Len(Strip(text)) = 1 /\ Strip(text)[1] \in Documents
    THEN [exc |-> NoExc, value |-> JsonValue(Strip(text)[1])]
    ELSE [exc |-> "JSONDecodeError", value |-> JsonObject]

\* an item test that forgets the reason key
MutQualifiesNameOnly(item) == item.isDict /\ item.hasName

\* isinstance(item, dict) and "name" in item and "reason" in item
Qualifies(item) == item.isDict /\ item.hasName /\ item.hasReason

\* the results list built by the loop over names_data
RECURSIVE CollectResults(_)
CollectResults(items) ==
    IF items = <<>> THEN <<>>
    ELSE IF Qualifies(Head(items))
         THEN <<[name |-> Strip(Head(items).name),
                 reason |-> Strip(Head(items).reason)]>>
              \o CollectResults(Tail(items))
         ELSE CollectResults(Tail(items))

\* a parser without the check for an empty results list
MutParseResponseAllowEmpty(content) ==
    LET names_data == JsonLoads(Unfence(content)) IN
    IF names_data.exc # NoExc \/ names_data.value.kind # "array"
    THEN [exc |-> "ModelError", data |-> <<>>]
    ELSE [exc |-> NoExc, data |-> CollectResults(names_data.value.items)]

\* a parser that returns the first result only
MutParseResponseFirstOnly(content) ==
    LET names_data == JsonLoads(Unfence(content)) IN
    IF names_data.exc # NoExc \/ names_data.value.kind # "array"
          \/ CollectResults(names_data.value.items) = <<>>
    THEN [exc |-> "ModelError", data |-> <<>>]
    ELSE [exc |-> NoExc,
          data |-> SubSeq(CollectResults(names_data.value.items), 1, 1)]

\* _parse_response: the exception raised (NoExc on return) and the results
ParseResponse(content) ==
    LET names_data == JsonLoads(Unfence(content)) IN
    IF names_data.exc # NoExc
    THEN [exc |-> "ModelError", data |-> <<>>]      \* json.JSONDecodeError
    ELSE IF names_data.value.kind # "array"
    THEN [exc |-> "ModelError", data |-> <<>>]      \* not a valid list
    ELSE IF CollectResults(names_data.value.items) = <<>>
    THEN [exc |-> "ModelError", data |-> <<>>]      \* no valid names
    ELSE [exc |-> NoExc, data |-> CollectResults(names_data.value.items)]

(***************************************************************************)
(* Service facade and HTTP boundary                                        *)
(***************************************************************************)
\* input checks that forget the upper limit of num_names
MutValidRequestNoUpper(req) ==
    /\ ~(req.animal = <<>> \/ ~req.animalIsStr)
    /\ req.traitsIsList
    /\ ~(req.num_names < MinNames)

\* the three input checks at the top of generate_pet_names
ValidRequest(req) ==
    /\ ~(req.animal = <<>> \/ ~req.animalIsStr)
    /\ req.traitsIsList
    /\ ~(req.num_names < MinNames \/ req.num_names > MaxNames)

\* `if cached_result:` -- None and the empty list are both falsy
Truthy(got) == got.found /\ got.data # <<>>

\* a health_check that catches the service's own errors only
MutHealthCheckNarrow(exc) ==
    IF exc = NoExc THEN [status |-> "healthy", raised |-> NoExc]
    ELSE IF IsInstance(exc, "OpenRouterError")
         THEN [status |-> "unhealthy", raised |-> NoExc]
         ELSE [status |-> "none", raised |-> exc]

\* OpenRouterService.health_check on the outcome of its probe: the status
\* it returns and the exception that leaves it
HealthCheck(exc) ==
    IF exc = NoExc THEN [status |-> "healthy", raised |-> NoExc]
    ELSE IF IsInstance(exc, "Exception")
         THEN [status |-> "unhealthy", raised |-> NoExc]
         ELSE [status |-> "none", raised |-> exc]

\* main.py generate_names: the HTTP status answered for the exception that
\* left generate_pet_names (the except clauses in their order)
GenerateNamesStatus(exc) ==
    IF exc = NoExc THEN 200
    ELSE IF IsInstance(exc, "AuthenticationError") THEN 401
    ELSE IF IsInstance(exc, "RateLimitError") THEN 429
    ELSE IF IsInstance(exc, "QuotaExceededError") THEN 402
    ELSE IF IsInstance(exc, "ModelError") THEN 400
    ELSE IF IsInstance(exc, "OpenRouterError") THEN 500
    ELSE IF IsInstance(exc, "ValueError") THEN 400
    ELSE 500

\* main.py health_check: always a returned body, hence status 200
HealthStatus(hc) == 200

HealthBody(hc) == IF hc.raised = NoExc THEN hc.status ELSE "unhealthy"

\* what a handler answers once its service call ended with exc and data at
\* time now
Answer(via, exc, data, now) ==
    IF via = "health"
    THEN [exc |-> exc, data |-> data,
          raised |-> HealthCheck(exc).raised,
          http |-> HealthStatus(HealthCheck(exc)),
          health |-> HealthBody(HealthCheck(exc)), at |-> now]
    ELSE [exc |-> exc, data |-> data, raised |-> exc,
          http |-> GenerateNamesStatus(exc), health |-> "none", at |-> now]

(***************************************************************************)
(* Inputs: the requests the handlers receive and the remote's answers      *)
(***************************************************************************)
Dog == <<"d", "o", "g">>
Friendly == <<"f", "r", "i", "e", "n", "d", "l", "y">>

Req(animal, traits, theme, num_names) ==
    [animal |-> animal, animalIsStr |-> TRUE, traits |-> traits,
     traitsIsList |-> TRUE, theme |-> theme, num_names |-> num_names]

\* the fixed arguments of the probe of health_check
ProbeRequest == Req(Dog, <<Friendly>>, <<>>, 1)

ValidRequests ==
    { Req(Dog, << <<"a">>, <<"b">> >>, <<>>, 3),
      Req(Dog, << <<"b">>, <<"a">> >>, <<>>, 3),
      ProbeRequest }

InvalidRequests ==
    { Req(Dog, <<>>, <<>>, 0),
      Req(Dog, <<>>, <<>>, MaxNames + 1),
      Req(<<>>, <<>>, <<>>, 3),
      [Req(Dog, <<>>, <<>>, 3) EXCEPT !.animalIsStr = FALSE],
      [Req(Dog, <<>>, <<>>, 3) EXCEPT !.traitsIsList = FALSE] }

Requests == ValidRequests \cup InvalidRequests

\* n blanks
Blank(n) == [i \in 1..n |-> " "]

\* a completion text: a document or other text between optional fences,
\* with blanks before, between and after
Text(lead, fenceOpen, inner, body, fenceClose, trail) ==
    Blank(lead) \o fenceOpen \o Blank(inner) \o body \o Blank(inner)
        \o fenceClose \o Blank(trail)

NoContent == <<>>

\* the completions the remote sends back in the runs
Contents ==
    { Text(1, JsonFence, 1, <<DocMaxRex>>, Fence, 1),
      Text(0, <<>>, 0, <<DocNoReasonMax>>, <<>>, 0),
      Text(0, <<>>, 0, <<DocNoReason>>, <<>>, 0),
      NoContent }

\* the status codes the remote answers with in the runs
ErrorStatuses == {201, 401, 402, 404, 429, 500}

Response(kind, status, envelope, content) ==
    [kind |-> kind, status |-> status, envelope |-> envelope, content |-> content]

Responses ==
    {Response("neterr", 0, "none", NoContent)}
    \cup {Response("http", s, "none", NoContent) : s \in ErrorStatuses}
    \cup {Response("http", 200, e, NoContent) : e \in {"undecodable", "missing"}}
    \cup {Response("http", 200, "ok", c) : c \in Contents}

NoCall == [via |-> "none", req |-> ProbeRequest]
NoKey == <<>>
NoLook == "none"
NoResult == [exc |-> NoExc, data |-> <<>>, raised |-> NoExc, http |-> 0,
             health |-> "none", at |-> 0]

KeyOf(req) == GetCacheKey(req.animal, req.traits, req.theme, req.num_names)

(***************************************************************************)
(* State machine                                                           *)
(***************************************************************************)
Init ==
    /\ lifespan = "new"
    /\ config = NoConfig
    /\ max_retries \in {0, DefaultMaxRetries, MaxRetriesCfg}
    /\ client = FALSE
    /\ opened = 0
    /\ released = 0
    /\ clock = 0
    /\ cache = <<>>
    /\ pc = [t \in Tasks |-> "idle"]
    /\ call = [t \in Tasks |-> NoCall]
    /\ cache_key = [t \in Tasks |-> NoKey]
    /\ dispatches = [t \in Tasks |-> 0]
    /\ trace = [t \in Tasks |-> <<>>]
    /\ waits = [t \in Tasks |-> <<>>]
    /\ look = [t \in Tasks |-> NoLook]
    /\ result = [t \in Tasks |-> NoResult]
    /\ stored = <<>>

\* OpenRouterService.start: create the client unless there is one
Start ==
    /\ client' = TRUE
    /\ opened' = IF client THEN opened ELSE opened + 1

\* OpenRouterService.close: release the client if there is one
Close ==
    /\ client' = FALSE
    /\ released' = IF client THEN released + 1 ELSE released

\* main.py lifespan, before the yield: the service is built from the
\* environment and started; when __init__ raises the application does not
\* come up
LifespanStart(env) ==
    /\ lifespan = "new"
    /\ IF Construct(env).exc = NoExc
       THEN /\ lifespan' = "up"
            /\ config' = Construct(env).config
            /\ Start
       ELSE /\ lifespan' = "failed"
            /\ UNCHANGED <<config, client, opened>>
    /\ UNCHANGED <<max_retries, released, clock, cache, pc, call, cache_key,
                   dispatches, trace, waits, look, result, stored>>

\* main.py lifespan, after the yield
LifespanStop ==
    /\ lifespan = "up"
    /\ lifespan' = "down"
    /\ Close
    /\ UNCHANGED <<config, max_retries, opened, clock, cache, pc, call, cache_key,
                   dispatches, trace, waits, look, result, stored>>

\* time passes
Tick ==
    /\ \E c \in ClockValues : c > clock /\ clock' = c
    /\ UNCHANGED <<lifespan, config, max_retries, client, opened, released, cache, pc,
                   call, cache_key, dispatches, trace, waits, look, result, stored>>

\* the call of task t ends: the handler answers
Finish(t, via, exc, data) ==
    /\ pc' = [pc EXCEPT ![t] = "done"]
    /\ result' = [result EXCEPT ![t] = Answer(via, exc, data, clock)]

\* a dispatch that has to wait while another call sleeps in its backoff
MutDispatchBlockedByBackoff(t) ==
    /\ \A u \in Tasks \ {t} : pc[u] # "backoff"
    /\ Start
    /\ pc' = [pc EXCEPT ![t] = "inflight"]
    /\ dispatches' = [dispatches EXCEPT ![t] = @ + 1]

\* the head of _make_api_request up to the await of client.post
Dispatch(t) ==
    /\ Start
    /\ pc' = [pc EXCEPT ![t] = "inflight"]
    /\ dispatches' = [dispatches EXCEPT ![t] = @ + 1]

\* what _get_from_cache found under the key
Looked(c, key, now) ==
    IF key \notin DOMAIN c THEN "absent"
    ELSE IF GetFromCache(c, key, now).found THEN "hit" ELSE "expired"

\* a handler of main.py starts on task t and runs generate_pet_names up to
\* its first suspension point: validation, cache lookup, first dispatch
Begin(t, via, req) ==
    /\ lifespan = "up"
    /\ pc[t] = "idle"
    /\ call' = [call EXCEPT ![t] = [via |-> via, req |-> req]]
    /\ IF ~ValidRequest(req)
       THEN /\ Finish(t, via, "ValueError", <<>>)
            /\ UNCHANGED <<cache, cache_key, look, client, opened, dispatches>>
       ELSE LET got == GetFromCache(cache, KeyOf(req), clock) IN
            /\ cache_key' = [cache_key EXCEPT ![t] = KeyOf(req)]
            /\ cache' = got.cache
            /\ look' = [look EXCEPT ![t] = Looked(cache, KeyOf(req), clock)]
            /\ IF Truthy(got)
               THEN /\ Finish(t, via, NoExc, got.data)
                    /\ UNCHANGED <<client, opened, dispatches>>
               ELSE /\ Dispatch(t)
                    /\ UNCHANGED result
    /\ UNCHANGED <<lifespan, config, max_retries, released, clock, trace, waits, stored>>

\* the history of stores once data was stored under key at time now
Remember(h, key, data, now) ==
    [k \in DOMAIN h \cup {key} |->
        IF k = key THEN [data |-> data, time |-> now] ELSE h[k]]

\* a handler that stores whatever the parser left, before looking at its outcome
MutRespondStoreUnparsed(t, resp) ==
    LET got == MakeApiRequestOnce(resp)
        parsed == ParseResponse(got.content)
        via == call[t].via
        key == cache_key[t]
    IN
    /\ pc[t] = "inflight"
    /\ trace' = [trace EXCEPT ![t] =
                    Append(@, [kind |-> resp.kind, status |-> resp.status,
                               envelope |-> resp.envelope,
                               content |-> resp.content])]
    /\ IF got.exc = NoExc
       THEN IF parsed.exc = NoExc
            THEN /\ cache' = SaveToCache(cache, key, parsed.data, clock)
                 /\ stored' = Remember(stored, key, parsed.data, clock)
                 /\ Finish(t, via, NoExc, parsed.data)
                 /\ UNCHANGED waits
            ELSE /\ cache' = SaveToCache(cache, key, parsed.data, clock)
                 /\ stored' = Remember(stored, key, parsed.data, clock)
                 /\ Finish(t, via, parsed.exc, <<>>)
                 /\ UNCHANGED waits
       ELSE IF RetryIf(got.exc)
            THEN IF StopAfterAttempt(dispatches[t], max_retries)
                 THEN /\ Finish(t, via, "RetryError", <<>>)
                      /\ UNCHANGED <<cache, stored, waits>>
                 ELSE /\ pc' = [pc EXCEPT ![t] = "backoff"]
                      /\ waits' = [waits EXCEPT ![t] =
                                      Append(@, WaitExponential(dispatches[t]))]
                      /\ UNCHANGED <<cache, stored, result>>
            ELSE /\ Finish(t, via, got.exc, <<>>)
                 /\ UNCHANGED <<cache, stored, waits>>
    /\ UNCHANGED <<lifespan, config, max_retries, client, opened, released, clock, call,
                   cache_key, dispatches, look>>

\* the remote's answer to the POST of task t arrives: the rest of
\* _make_api_request, the retry decision, and on success the rest of
\* generate_pet_names (parse, store, return)
Respond(t, resp) ==
    LET got == MakeApiRequestOnce(resp)
        parsed == ParseResponse(got.content)
        via == call[t].via
        key == cache_key[t]
    IN
    /\ pc[t] = "inflight"
    /\ trace' = [trace EXCEPT ![t] =
                    Append(@, [kind |-> resp.kind, status |-> resp.status,
                               envelope |-> resp.envelope,
                               content |-> resp.content])]
    /\ IF got.exc = NoExc
       THEN IF parsed.exc = NoExc
            THEN /\ cache' = SaveToCache(cache, key, parsed.data, clock)
                 /\ stored' = Remember(stored, key, parsed.data, clock)
                 /\ Finish(t, via, NoExc, parsed.data)
                 /\ UNCHANGED waits
            ELSE /\ Finish(t, via, parsed.exc, <<>>)
                 /\ UNCHANGED <<cache, stored, waits>>
       ELSE IF RetryIf(got.exc)
            THEN IF StopAfterAttempt(dispatches[t], max_retries)
                 THEN /\ Finish(t, via, "RetryError", <<>>)
                      /\ UNCHANGED <<cache, stored, waits>>
                 ELSE /\ pc' = [pc EXCEPT ![t] = "backoff"]
                      /\ waits' = [waits EXCEPT ![t] =
                                      Append(@, WaitExponential(dispatches[t]))]
                      /\ UNCHANGED <<cache, stored, result>>
            ELSE /\ Finish(t, via, got.exc, <<>>)
                 /\ UNCHANGED <<cache, stored, waits>>
    /\ UNCHANGED <<lifespan, config, max_retries, client, opened, released, clock, call,
                   cache_key, dispatches, look>>

\* the retry sleep of task t is over: the next attempt is dispatched
Wake(t) ==
    /\ pc[t] = "backoff"
    /\ Dispatch(t)
    /\ UNCHANGED <<lifespan, config, max_retries, released, clock, cache, call,
                   cache_key, trace, waits, look, result, stored>>

\* the answer of task t has been sent: the task can serve the next request
Return(t) ==
    /\ pc[t] = "done"
    /\ pc' = [pc EXCEPT ![t] = "idle"]
    /\ call' = [call EXCEPT ![t] = NoCall]
    /\ cache_key' = [cache_key EXCEPT ![t] = NoKey]
    /\ dispatches' = [dispatches EXCEPT ![t] = 0]
    /\ trace' = [trace EXCEPT ![t] = <<>>]
    /\ waits' = [waits EXCEPT ![t] = <<>>]
    /\ look' = [look EXCEPT ![t] = NoLook]
    /\ result' = [result EXCEPT ![t] = NoResult]
    /\ UNCHANGED <<lifespan, config, max_retries, client, opened, released, clock, cache,
                   stored>>

\* the caller gives up on task t while it waits for the remote or sleeps in
\* its backoff: asyncio.CancelledError is raised at that await, no except
\* clause on the way catches it, and the call ends without an answer
Cancel(t) ==
    /\ pc[t] \in {"inflight", "backoff"}
    /\ pc' = [pc EXCEPT ![t] = "done"]
    /\ result' = [result EXCEPT ![t] =
                     [NoResult EXCEPT !.exc = "CancelledError",
                                      !.raised = "CancelledError",
                                      !.at = clock]]
    /\ UNCHANGED <<lifespan, config, max_retries, client, opened, released, clock,
                   cache, call, cache_key, dispatches, trace, waits, look, stored>>

Call(via, req) == [via |-> via, req |-> req]

Environ(api_key, max_tokens, temperature, top_p) ==
    [OPENROUTER_API_KEY |-> api_key, OPENROUTER_MAX_TOKENS |-> max_tokens,
     OPENROUTER_TEMPERATURE |-> temperature, OPENROUTER_TOP_P |-> top_p]

\* an environment that sets the API key only
DefaultEnviron == Environ("sk-or-key", Unset, Unset, Unset)

\* the steps of the tasks T when the application starts in one of the
\* environments Envs, the handlers are called as in Calls and the remote
\* answers with Resps
Run(T, Envs, Calls, Resps) ==
    \/ \E env \in Envs : LifespanStart(env)
    \/ LifespanStop
    \/ Tick
    \/ \E t \in T : \E c \in Calls : Begin(t, c.via, c.req)
    \/ \E t \in T : \E resp \in Resps : Respond(t, resp)
    \/ \E t \in T : Wake(t)
    \/ \E t \in T : Return(t)

\* one handler at a time, every request shape, every answer of the remote
Calls == {Call("api", req) : req \in Requests} \cup {Call("health", ProbeRequest)}

Next == Run({"t1"}, {DefaultEnviron}, Calls, Responses)

Spec == Init /\ [][Next]_vars

\* two concurrent handlers on one fingerprint given in both trait orders
CacheCalls ==
    { Call("api", Req(Dog, << <<"a">>, <<"b">> >>, <<>>, 3)),
      Call("api", Req(Dog, << <<"b">>, <<"a">> >>, <<>>, 3)) }

CacheResponses ==
    { Response("http", 429, "none", NoContent),
      Response("http", 200, "ok", Text(1, JsonFence, 1, <<DocRex>>, Fence, 1)),
      Response("http", 200, "ok", Text(0, <<>>, 0, <<DocNoReasonMax>>, <<>>, 0)) }

NextCache == Run(Tasks, {DefaultEnviron}, CacheCalls, CacheResponses)

InitCache == Init /\ max_retries = DefaultMaxRetries

SpecCache == InitCache /\ [][NextCache]_vars

(***************************************************************************)
(* The cache key on its own: generate_pet_names run up to the computation  *)
(* of cache_key, on every request of a bounded set                         *)
(***************************************************************************)
MaxTraits == 3            \* the longest trait list tried

TraitPool == {<<"a">>, <<"b">>, <<"a", "b">>}

TraitLists == UNION {[1..n -> TraitPool] : n \in 0..MaxTraits}

KeyRequests ==
    {Req(Dog, traits, theme, n) :
        traits \in TraitLists, theme \in {<<>>, <<"x">>}, n \in {MinNames, MaxNames}}

\* generate_pet_names from its entry to the assignment of cache_key
ComputeKey(t, req) ==
    /\ pc[t] = "idle"
    /\ call[t] = NoCall
    /\ ValidRequest(req)
    /\ call' = [call EXCEPT ![t] = Call("api", req)]
    /\ cache_key' = [cache_key EXCEPT ![t] = KeyOf(req)]
    /\ UNCHANGED <<lifespan, config, max_retries, client, opened, released, clock, cache,
                   pc, dispatches, trace, waits, look, result, stored>>

NextKey == \E t \in Tasks : \E req \in KeyRequests : ComputeKey(t, req)

SpecKey == InitCache /\ [][NextKey]_vars

(***************************************************************************)
(* The parser on its own: _parse_response run on every completion of a     *)
(* bounded set                                                             *)
(***************************************************************************)
MaxBlank == 1             \* the most blanks in one place of a completion

\* what stands between the fences: one document, nothing, or other text
Bodies == {<<d>> : d \in Documents} \cup {<<>>, <<"x">>}

ParseTexts ==
    {Text(lead, fenceOpen, inner, body, fenceClose, trail) :
        lead \in 0..MaxBlank, inner \in 0..MaxBlank, trail \in 0..MaxBlank,
        fenceOpen \in {<<>>, JsonFence, Fence},
        body \in Bodies, fenceClose \in {<<>>, Fence}}

\* generate_pet_names from the return of _make_api_request with a completion
\* to the end of _parse_response
Parse(t, content) ==
    LET parsed == ParseResponse(content) IN
    /\ pc[t] = "idle"
    /\ call[t] = NoCall
    /\ call' = [call EXCEPT ![t] = Call("api", ProbeRequest)]
    /\ trace' = [trace EXCEPT ![t] =
                    <<[kind |-> "http", status |-> 200, envelope |-> "ok",
                       content |-> content]>>]
    /\ Finish(t, "api", parsed.exc, parsed.data)
    /\ UNCHANGED <<lifespan, config, max_retries, client, opened, released, clock, cache,
                   cache_key, dispatches, waits, look, stored>>

NextParse == \E content \in ParseTexts : Parse("t1", content)

SpecParse == InitCache /\ [][NextParse]_vars

(***************************************************************************)
(* Construction: the application started in every environment of a bounded *)
(* set, with one handler                                                   *)
(***************************************************************************)
\* the default environment with one variable changed
Environs ==
    {DefaultEnviron}
    \cup {Environ(k, Unset, Unset, Unset) : k \in {Unset, ""}}
    \cup {Environ("sk-or-key", n, Unset, Unset) :
             n \in {"0", "1", "4096", "4097", "many"}}
    \cup {Environ("sk-or-key", Unset, x, Unset) :
             x \in {"-0.1", "0", "2", "2.1", "nan", "warm"}}
    \cup {Environ("sk-or-key", Unset, Unset, x) :
             x \in {"-0.1", "0", "1", "1.1", "nan"}}

ConfigResponses ==
    { Response("http", 429, "none", NoContent),
      Response("http", 200, "ok", Text(0, <<>>, 0, <<DocRex>>, <<>>, 0)) }

NextConfig == Run({"t1"}, Environs, {Call("api", ProbeRequest)}, ConfigResponses)

SpecConfig == InitCache /\ [][NextConfig]_vars

(***************************************************************************)
(* Cancellation: one handler, every request and every answer, and a caller *)
(* that may give up on a call that is waiting                              *)
(***************************************************************************)
NextCancel == Next \/ Cancel("t1")

SpecCancel == Init /\ [][NextCancel]_vars

(***************************************************************************)
(* Backoff: two concurrent handlers on two fingerprints                    *)
(***************************************************************************)
BackoffCalls ==
    { Call("api", Req(Dog, << <<"a">>, <<"b">> >>, <<>>, 3)),
      Call("api", ProbeRequest) }

BackoffResponses ==
    { Response("http", 429, "none", NoContent),
      Response("http", 200, "ok", Text(0, <<>>, 0, <<DocRex>>, <<>>, 0)) }

NextBackoff == Run(Tasks, {DefaultEnviron}, BackoffCalls, BackoffResponses)

SpecBackoff == InitCache /\ [][NextBackoff]_vars

(***************************************************************************)
(* Health: two concurrent handlers, generate-names and health, on the      *)
(* fingerprint of the probe                                                *)
(***************************************************************************)
HealthCalls == {Call("api", ProbeRequest), Call("health", ProbeRequest)}

HealthResponses ==
    { Response("http", 429, "none", NoContent),
      Response("http", 200, "ok", Text(0, <<>>, 0, <<DocNoReasonMax>>, <<>>, 0)),
      Response("http", 200, "ok", Text(0, <<>>, 0, <<DocNoReason>>, <<>>, 0)) }

NextHealth == Run(Tasks, {DefaultEnviron}, HealthCalls, HealthResponses)

SpecHealth == InitCache /\ [][NextHealth]_vars

(***************************************************************************)
(* The cache key on requests whose strings hold the separators of the key  *)
(***************************************************************************)
SepTraitLists ==
    { <<>>,
      << <<>> >>,
      << <<"b">> >>,
      << <<"b">>, <<"c">> >>,
      << <<"c">>, <<"b">> >>,
      << <<"b", ",", "c">> >>,
      << <<"b", ":", "c">> >> }

SepRequests ==
    {Req(animal, traits, theme, n) :
        animal \in {<<"a">>, <<"a", ":", "b">>},
        traits \in SepTraitLists,
        theme \in {<<>>, <<"c">>, <<":", "c">>},
        n \in {MinNames, MaxNames}}

NextSep == \E t \in Tasks : \E req \in SepRequests : ComputeKey(t, req)

SpecSep == InitCache /\ [][NextSep]_vars

(***************************************************************************)
(* Properties                                                              *)
(***************************************************************************)
Last(s) == s[Len(s)]

Finished(t) == pc[t] = "done"

\* the classification the error taxonomy gives a failure status
ClaimedClass(status) ==
    CASE status = 401 -> "AuthenticationError"
      [] status = 429 -> "RateLimitError"
      [] status = 402 -> "QuotaExceededError"
      [] status \in 400..499 \ {401, 402, 429} -> "ModelError"
      [] OTHER -> "OpenRouterError"

\* a response the taxonomy classifies as not retryable
NotRetryable(a) ==
    /\ a.kind = "http"
    /\ \/ a.status \in 400..499 \ {429}
       \/ a.status \in 500..599

NetErr(a) == a.kind = "neterr"
Answered(a, status) == a.kind = "http" /\ a.status = status

\* C1: a network failure of an attempt is retried: a call ends on a network
\* failure only when that was its third attempt, and a call whose first two
\* attempts met a network failure and whose third attempt succeeded returns
\* the third attempt's results after exactly 3 dispatches.
C1_NetworkFailureRetried ==
    \A t \in Tasks :
        /\ (Finished(t) /\ trace[t] # <<>> /\ NetErr(Last(trace[t])))
              => Len(trace[t]) = MaxAttempts
        /\ (Finished(t) /\ Len(trace[t]) = 3 /\ NetErr(trace[t][1])
                /\ NetErr(trace[t][2]) /\ Answered(trace[t][3], 200)
                /\ trace[t][3].envelope = "ok" /\ result[t].data # <<>>)
              => (result[t].exc = NoExc /\ dispatches[t] = 3)

\* C2: when the remote answers 429 to every attempt, the failure that leaves
\* generate after the third attempt is RateLimitError and the
\* generate-names boundary answers 429.
C2_RateLimitExhausted ==
    \A t \in Tasks :
        (Finished(t) /\ Len(trace[t]) = MaxAttempts
            /\ \A i \in 1..Len(trace[t]) : Answered(trace[t][i], 429))
        => /\ result[t].exc = "RateLimitError"
           /\ call[t].via = "api" => result[t].http = 429

\* C3: an attempt answered with a failure that is not retryable (401, 402,
\* another 4xx, 5xx) is the last attempt of its call: the call ends at once
\* with the classification of that status, no wait follows it, and when it
\* was the first attempt the call made exactly one dispatch and no wait.
C3_NoRetryOnPermanentFailure ==
    \A t \in Tasks : \A i \in 1..Len(trace[t]) :
        NotRetryable(trace[t][i]) =>
            /\ i = Len(trace[t])
            /\ Finished(t)
            /\ result[t].exc = ClaimedClass(trace[t][i].status)
            /\ dispatches[t] = i
            /\ Len(waits[t]) = i - 1

C3_Witness ==
    \E t \in Tasks :
        /\ Finished(t)
        /\ Len(trace[t]) = 1
        /\ Answered(trace[t][1], 401)
        /\ dispatches[t] = 1
        /\ waits[t] = <<>>
        /\ result[t].exc = "AuthenticationError"

\* C4: whatever the remote answers and whatever max_retries is configured,
\* one call makes at most 3 dispatches, and a call answered from the cache
\* makes none.
C4_AtMostThreeDispatches ==
    \A t \in Tasks :
        /\ dispatches[t] <= 3
        /\ look[t] = "hit" => (dispatches[t] = 0 /\ Finished(t))

C4_Witness ==
    \E t \in Tasks :
        /\ Finished(t)
        /\ dispatches[t] = 3
        /\ max_retries > 3
        /\ \A i \in 1..3 : Answered(trace[t][i], 429)

\* a request shape generate must reject
InvalidShape(req) ==
    \/ req.num_names < 1
    \/ req.num_names > 10
    \/ req.animal = <<>>
    \/ ~req.animalIsStr
    \/ ~req.traitsIsList

\* C8: a call with an invalid request shape ends in the step that starts it,
\* as a ValueError answered 400 by the generate-names boundary, with no
\* dispatch, no cache lookup, no change of the cache and no client created.
C8_InvalidRequestRejected ==
    [][\A t \in Tasks :
          (pc[t] = "idle" /\ pc'[t] # "idle" /\ InvalidShape(call'[t].req))
          => /\ pc'[t] = "done"
             /\ result'[t].exc = "ValueError"
             /\ call'[t].via = "api" => result'[t].http = 400
             /\ dispatches'[t] = 0
             /\ look'[t] = "none"
             /\ cache' = cache
             /\ opened' = opened]_vars

C8_Witness ==
    \E t \in Tasks :
        /\ Finished(t)
        /\ call[t].via = "api"
        /\ call[t].req.num_names = 11
        /\ result[t].exc = "ValueError"
        /\ result[t].http = 400
        /\ dispatches[t] = 0

\* C9: nothing leaves health_check: whatever ended its probe, the health
\* handler answers 200 with a status that is "healthy" exactly when the
\* probe returned without failure and "unhealthy" otherwise.
C9_HealthCheckNeverRaises ==
    \A t \in Tasks :
        (Finished(t) /\ call[t].via = "health")
        => /\ result[t].raised = NoExc
           /\ result[t].http = 200
           /\ result[t].health \in {"healthy", "unhealthy"}
           /\ result[t].health = "healthy" <=> result[t].exc = NoExc

C9_Witness ==
    \E t \in Tasks :
        /\ Finished(t)
        /\ call[t].via = "health"
        /\ Len(trace[t]) = 3
        /\ \A i \in 1..3 : Answered(trace[t][i], 429)
        /\ result[t].exc # NoExc
        /\ result[t].health = "unhealthy"
        /\ result[t].http = 200

\* C10: the status of the remote's answer decides the classification: a call
\* that ends on a 2xx answer was not failed by the status mapping with the
\* generic service error, and a call that ends on a non-2xx answer other
\* than 429 fails with the class of that status (401 Authentication, 402
\* QuotaExceeded, other 4xx ModelError, the rest generic service error).
C10_StatusClassification ==
    \A t \in Tasks :
        (Finished(t) /\ trace[t] # <<>> /\ Last(trace[t]).kind = "http")
        => IF Last(trace[t]).status \in 200..299
           THEN result[t].exc # "OpenRouterError"
           ELSE Last(trace[t]).status # 429
                => result[t].exc = ClaimedClass(Last(trace[t]).status)

\* the same strings with the same multiplicities, in any order
SameBag(s1, s2) ==
    /\ Len(s1) = Len(s2)
    /\ \A i \in 1..Len(s1) :
          Cardinality({j \in 1..Len(s1) : s1[j] = s1[i]})
              = Cardinality({j \in 1..Len(s2) : s2[j] = s1[i]})

Calling(t) == call[t].via # "none"

\* C5 as stated: while a call that dispatched and succeeded at time t is
\* still being answered, a later call with the same arguments that starts
\* before t + TTL makes no dispatch and returns that first call's results.
C5_ReturnsFirstCallsResults ==
    [][\A t1, t2 \in Tasks :
          (/\ t1 # t2
           /\ Finished(t1) /\ result[t1].exc = NoExc /\ dispatches[t1] >= 1
           /\ pc[t2] = "idle" /\ pc'[t2] # "idle"
           /\ cache_key'[t2] = cache_key[t1]
           /\ clock < result[t1].at + 3600)
          => /\ pc'[t2] = "done"
             /\ dispatches'[t2] = 0
             /\ result'[t2].data = result[t1].data]_vars

\* C5 as amended: once results were stored under a fingerprint at time t, a
\* call with that fingerprint that starts before t + TTL ends in its first
\* step with no dispatch and returns the results stored last under that
\* fingerprint.
C5_HitReturnsLatestStore ==
    [][\A t \in Tasks :
          (/\ pc[t] = "idle" /\ pc'[t] # "idle"
           /\ cache_key'[t] \in DOMAIN stored
           /\ clock < stored[cache_key'[t]].time + 3600)
          => /\ pc'[t] = "done"
             /\ dispatches'[t] = 0
             /\ result'[t].exc = NoExc
             /\ result'[t].data = stored[cache_key'[t]].data]_vars

C5_Witness ==
    \E t \in Tasks :
        /\ Finished(t)
        /\ look[t] = "hit"
        /\ dispatches[t] = 0
        /\ result[t].exc = NoExc
        /\ result[t].data = stored[cache_key[t]].data
        /\ result[t].at = stored[cache_key[t]].time + 3600 - 1

\* C6: two requests that differ only in the order of their traits get the
\* same cache key, hence the same cache entry.
C6_KeyIgnoresTraitOrder ==
    \A t1, t2 \in Tasks :
        (/\ Calling(t1) /\ Calling(t2)
         /\ call[t1].req.animal = call[t2].req.animal
         /\ call[t1].req.theme = call[t2].req.theme
         /\ call[t1].req.num_names = call[t2].req.num_names
         /\ SameBag(call[t1].req.traits, call[t2].req.traits))
        => cache_key[t1] = cache_key[t2]

C6_Witness ==
    \E t1, t2 \in Tasks :
        /\ Calling(t1) /\ Calling(t2)
        /\ call[t1].req.traits = << <<"b">>, <<"a", "b">>, <<"a">> >>
        /\ call[t2].req.traits = << <<"a", "b">>, <<"a">>, <<"b">> >>
        /\ call[t1].req.theme = call[t2].req.theme
        /\ call[t1].req.num_names = call[t2].req.num_names
        /\ cache_key[t1] = cache_key[t2]
        /\ cache_key[t1] # NoKey

\* C7: the lookup a call makes in its first step, on an entry of its key:
\* at age >= 3600 the entry is removed, nothing else of the cache changes
\* and the call goes on to its first dispatch; at age < 3600 the cache is
\* left as it is and the call ends at once with the entry's results.
C7_ExpiryAtTTL ==
    [][\A t \in Tasks :
          (/\ pc[t] = "idle" /\ pc'[t] # "idle"
           /\ cache_key'[t] \in DOMAIN cache)
          => IF clock - cache[cache_key'[t]].timestamp >= 3600
             THEN /\ DOMAIN cache' = DOMAIN cache \ {cache_key'[t]}
                  /\ \A k \in DOMAIN cache' : cache'[k] = cache[k]
                  /\ pc'[t] = "inflight"
                  /\ dispatches'[t] = 1
             ELSE /\ cache' = cache
                  /\ pc'[t] = "done"
                  /\ dispatches'[t] = 0
                  /\ result'[t].exc = NoExc
                  /\ result'[t].data = cache[cache_key'[t]].data]_vars

C7_Witness ==
    \E t \in Tasks :
        /\ pc[t] = "inflight"
        /\ look[t] = "expired"
        /\ dispatches[t] = 1
        /\ trace[t] = <<>>
        /\ cache_key[t] \notin DOMAIN cache
        /\ clock - stored[cache_key[t]].time = 3600

\* C11: at the generate-names boundary a failure is answered by its
\* classification: Authentication 401, RateLimit 429, QuotaExceeded 402,
\* Model/validation 400, generic service error 500, a local validation error
\* of a malformed request 400, every other failure 500; a success is
\* answered 200.
C11_BoundaryMapping ==
    \A t \in Tasks :
        (Finished(t) /\ call[t].via = "api")
        => LET exc == result[t].exc IN
           result[t].http =
               IF exc = NoExc THEN 200
               ELSE IF exc = "AuthenticationError" THEN 401
               ELSE IF exc = "RateLimitError" THEN 429
               ELSE IF exc = "QuotaExceededError" THEN 402
               ELSE IF exc = "ModelError" THEN 400
               ELSE IF exc = "OpenRouterError" THEN 500
               ELSE IF InvalidShape(call[t].req) THEN 400
               ELSE 500

\* an answer with success status whose envelope cannot be read
Malformed(a) ==
    a.kind = "http" /\ a.status = 200 /\ a.envelope \in {"undecodable", "missing"}

\* C12: an attempt answered 200 with a malformed envelope is the last attempt
\* of its call: the call ends at once with the generic service error, the
\* generate-names boundary answers 500, and no wait follows the attempt.
C12_MalformedEnvelopeIsServiceError ==
    \A t \in Tasks : \A i \in 1..Len(trace[t]) :
        Malformed(trace[t][i]) =>
            /\ i = Len(trace[t])
            /\ Finished(t)
            /\ Len(waits[t]) = i - 1
            /\ result[t].exc = "OpenRouterError"
            /\ call[t].via = "api" => result[t].http = 500

\* an array element that is an object with both keys
HasNameAndReason(item) == item.isDict /\ item.hasName /\ item.hasReason

\* the call of task t ended on a completion it received and parsed
Parsed(t) ==
    /\ Finished(t)
    /\ trace[t] # <<>>
    /\ Answered(Last(trace[t]), 200)
    /\ Last(trace[t]).envelope = "ok"

\* C13: the parse of a received completion never succeeds with an empty
\* list.  When the completion is one JSON document between blanks, an
\* optional leading json fence and an optional trailing fence, the parse
\* returns one result per array element that is an object with a name and a
\* reason, in array order, and fails with ModelError when the document is no
\* array or has no such element; every other completion fails with
\* ModelError.
C13_ParseContract ==
    \A t \in Tasks :
        Parsed(t) =>
            LET content == Last(trace[t]).content
                Shaped(d) ==
                    \E lead, inner, trail \in 0..MaxBlank :
                    \E fenceOpen \in {<<>>, JsonFence} :
                    \E fenceClose \in {<<>>, Fence} :
                        content = Text(lead, fenceOpen, inner, <<d>>, fenceClose, trail)
            IN
            /\ result[t].exc = NoExc => result[t].data # <<>>
            /\ result[t].exc # NoExc => result[t].exc = "ModelError"
            /\ \A d \in Documents :
                  Shaped(d) =>
                      LET q == SelectSeq(JsonValue(d).items, HasNameAndReason) IN
                      IF JsonValue(d).kind = "array" /\ q # <<>>
                      THEN /\ result[t].exc = NoExc
                           /\ Len(result[t].data) = Len(q)
                           /\ \A j \in 1..Len(q) :
                                 /\ result[t].data[j].name = Strip(q[j].name)
                                 /\ result[t].data[j].reason = Strip(q[j].reason)
                      ELSE result[t].exc = "ModelError"
            /\ (~\E d \in Documents : Shaped(d)) => result[t].exc = "ModelError"

C13_Witness ==
    \E t \in Tasks :
        /\ Parsed(t)
        /\ Last(trace[t]).content = Text(1, JsonFence, 1, <<DocMixed>>, Fence, 1)
        /\ result[t].exc = NoExc
        /\ Len(result[t].data) = 2
        /\ result[t].data[1].name = <<"r", "e", "x">>
        /\ result[t].data[2].name = <<"m", "a", "x">>

\* C14: every client that was created and is not the one in use has been
\* released, exactly once, and once the shutdown has run close no client is
\* open: every client created was released.
C14_NoLeak ==
    /\ opened - released = (IF client THEN 1 ELSE 0)
    /\ lifespan = "down" => (~client /\ opened = released)

\* the call of task t missed the cache, dispatched and returned results
Fetched(t) ==
    /\ Finished(t)
    /\ result[t].exc = NoExc
    /\ dispatches[t] >= 1

\* C15: when two concurrent calls with the same fingerprint have both
\* dispatched and both returned, the cache holds under that fingerprint the
\* complete results of one of them, the one stored last; and a call that
\* waits for the remote or for its backoff can always take its next step,
\* whatever the other call is doing.
C15_LastWriteWins ==
    /\ \A t1, t2 \in Tasks :
          (t1 # t2 /\ Fetched(t1) /\ Fetched(t2) /\ cache_key[t1] = cache_key[t2])
          => /\ cache_key[t1] \in DOMAIN cache
             /\ cache[cache_key[t1]].data \in {result[t1].data, result[t2].data}
             /\ cache[cache_key[t1]].data = stored[cache_key[t1]].data
             /\ cache[cache_key[t1]].timestamp = stored[cache_key[t1]].time
    /\ \A t \in Tasks :
          /\ pc[t] = "inflight"
                => ENABLED (\E resp \in CacheResponses : Respond(t, resp))
          /\ pc[t] = "backoff" => ENABLED Wake(t)

C15_Witness ==
    \E t1, t2 \in Tasks :
        /\ t1 # t2
        /\ Fetched(t1) /\ Fetched(t2)
        /\ look[t1] = "absent" /\ look[t2] = "absent"
        /\ cache_key[t1] = cache_key[t2]
        /\ result[t1].data # result[t2].data
        /\ result[t1].at < result[t2].at
        /\ cache[cache_key[t1]].data = result[t2].data
        /\ Len(cache[cache_key[t1]].data) = 1

\* the document d is part of the text
Contains(text, d) == \E i \in 1..Len(text) : text[i] = d

\* C16: a call on a valid request that dispatched and succeeded returns as
\* many results as the remote's reply has qualifying entries, whatever the
\* requested count.
C16_LengthIsQualifyingCount ==
    \A t \in Tasks :
        (Parsed(t) /\ call[t].via = "api" /\ result[t].exc = NoExc)
        => /\ call[t].req.num_names \in 1..10
           /\ \A d \in Documents :
                 Contains(Last(trace[t]).content, d)
                 => Len(result[t].data)
                        = Len(SelectSeq(JsonValue(d).items, HasNameAndReason))

\* more results than requested
C16_Witness ==
    \E t \in Tasks :
        /\ Parsed(t)
        /\ call[t].via = "api"
        /\ result[t].exc = NoExc
        /\ call[t].req.num_names = 1
        /\ Contains(Last(trace[t]).content, DocMaxRex)
        /\ Len(result[t].data) = 2

\* a service instance exists
Built == lifespan \in {"up", "down"}

\* C17: a service that exists holds a configuration within the ranges (a
\* credential that is not empty, temperature in [0,2], top-p in [0,1],
\* max-tokens in [1,4096]); and when building the service failed, no client
\* was created and no request was served.
C17_ConfigWithinRanges ==
    /\ Built =>
          /\ config.api_key # ""
          /\ ~config.temperature.nan
          /\ config.temperature.v \in 0..20
          /\ ~config.top_p.nan
          /\ config.top_p.v \in 0..10
          /\ config.max_tokens \in 1..4096
    /\ lifespan = "failed" =>
          /\ config = NoConfig
          /\ ~client /\ opened = 0
          /\ \A t \in Tasks : pc[t] = "idle" /\ dispatches[t] = 0

\* the cache c without the entry of key
Without(c, key) == [k \in DOMAIN c \ {key} |-> c[k]]

\* the completion has a JSON array with at least one qualifying entry
Parseable(text) ==
    \E d \in Documents :
        /\ Contains(text, d)
        /\ JsonValue(d).kind = "array"
        /\ SelectSeq(JsonValue(d).items, HasNameAndReason) # <<>>

\* C18: a step in which a call ends in failure or is cancelled leaves the
\* cache as it is, and the cache changes in two kinds of step only: the
\* first step of a call, whose lookup removes the entry of its own
\* fingerprint when that entry is at least 3600 s old, and the step in which
\* a call that dispatched gets a 200 answer with a readable envelope and a
\* parseable completion and stores its results under its own fingerprint.
C18_FailureStoresNothing ==
    [][/\ \A t \in Tasks :
             (pc[t] \in {"inflight", "backoff"} /\ pc'[t] = "done"
                 /\ result'[t].exc # NoExc)
             => (cache' = cache /\ stored' = stored)
       /\ (cache' # cache \/ stored' # stored) =>
             \E t \in Tasks :
                 \/ /\ pc[t] = "idle" /\ pc'[t] = "inflight"
                    /\ cache_key'[t] \in DOMAIN cache
                    /\ clock - cache[cache_key'[t]].timestamp >= 3600
                    /\ cache' = Without(cache, cache_key'[t])
                    /\ stored' = stored
                 \/ /\ pc[t] = "inflight" /\ pc'[t] = "done"
                    /\ dispatches[t] >= 1
                    /\ result'[t].exc = NoExc
                    /\ Answered(Last(trace'[t]), 200)
                    /\ Last(trace'[t]).envelope = "ok"
                    /\ Parseable(Last(trace'[t]).content)
                    /\ DOMAIN cache' = DOMAIN cache \cup {cache_key[t]}
                    /\ cache'[cache_key[t]].data = result'[t].data
                    /\ \A k \in DOMAIN cache \ {cache_key[t]} : cache'[k] = cache[k]
      ]_vars

\* a call whose lookup removed an expired entry was cancelled: the entry is
\* gone, another entry is still there, nothing was stored
C18_Witness ==
    \E t \in Tasks :
        /\ Finished(t)
        /\ result[t].exc = "CancelledError"
        /\ look[t] = "expired"
        /\ dispatches[t] >= 1
        /\ cache_key[t] \notin DOMAIN cache
        /\ cache_key[t] \in DOMAIN stored
        /\ cache # <<>>

\* C19: every backoff wait of a call is at least 4 s and at most 10 s, and
\* the waits of one call never decrease.
C19_BackoffWithinBounds ==
    \A t \in Tasks :
        /\ \A i \in 1..Len(waits[t]) : waits[t][i] >= 4 /\ waits[t][i] <= 10
        /\ \A i \in 1..Len(waits[t]) - 1 : waits[t][i] <= waits[t][i + 1]

\* a call that waited twice, before its second and before its third attempt
C19_Witness ==
    \E t \in Tasks :
        /\ Len(waits[t]) = 2
        /\ dispatches[t] = 3
        /\ waits[t][1] = 4
        /\ waits[t][2] = 4

\* the next step of the call of task t can be taken
CanStep(t) ==
    /\ (pc[t] = "idle" /\ lifespan = "up")
          => \A c \in BackoffCalls : ENABLED Begin(t, c.via, c.req)
    /\ pc[t] = "inflight"
          => ENABLED (\E resp \in BackoffResponses : Respond(t, resp))
    /\ pc[t] = "backoff" => ENABLED Wake(t)
    /\ pc[t] = "done" => ENABLED Return(t)

\* C20: while the call of one task sleeps in its backoff, the call of every
\* other task can take its next step: start on either fingerprint, take the
\* remote's answer, start its own next attempt, return.
C20_BackoffSuspendsCallerOnly ==
    \A t1, t2 \in Tasks :
        (t1 # t2 /\ pc[t1] = "backoff") => CanStep(t2)

\* one task sleeps in the backoff of a call that had found nothing under
\* its fingerprint; since that call started, the other task has stored
\* results under the same fingerprint and has then been answered from the
\* cache
C20_Witness ==
    \E t1, t2 \in Tasks :
        /\ t1 # t2
        /\ pc[t1] = "backoff"
        /\ look[t1] = "absent"
        /\ cache_key[t1] = cache_key[t2]
        /\ clock = 0
        /\ Finished(t2)
        /\ look[t2] = "hit"
        /\ dispatches[t2] = 0
        /\ result[t2].exc = NoExc

\* the results a document gives: its qualifying entries, in order
ResultsOf(d) ==
    LET q == SelectSeq(JsonValue(d).items, HasNameAndReason) IN
    [j \in 1..Len(q) |-> [name |-> Strip(q[j].name), reason |-> Strip(q[j].reason)]]

\* C21: every cache entry holds a non-empty list of results that each have a
\* name and a reason, the list is the whole of what one document of the
\* remote gives, and its timestamp is not later than the current time; a
\* call answered from the cache returns a non-empty list.
C21_CacheEntriesWellFormed ==
    /\ \A k \in DOMAIN cache :
          /\ cache[k].data # <<>>
          /\ \A i \in 1..Len(cache[k].data) :
                DOMAIN cache[k].data[i] = {"name", "reason"}
          /\ \E d \in Documents :
                /\ JsonValue(d).kind = "array"
                /\ cache[k].data = ResultsOf(d)
          /\ cache[k].timestamp <= clock
    /\ \A t \in Tasks :
          (Finished(t) /\ look[t] = "hit")
          => (result[t].exc = NoExc /\ result[t].data # <<>>)

\* a health check answered from an entry that a generate-names call stored
\* earlier, from a reply with one entry dropped
C21_Witness ==
    \E t1, t2 \in Tasks :
        /\ t1 # t2
        /\ Fetched(t1) /\ call[t1].via = "api"
        /\ Finished(t2) /\ call[t2].via = "health" /\ look[t2] = "hit"
        /\ cache_key[t2] \in DOMAIN cache
        /\ cache[cache_key[t2]].data = ResultsOf(DocNoReasonMax)
        /\ Len(cache[cache_key[t2]].data) = 1
        /\ cache[cache_key[t2]].timestamp < clock
        /\ result[t2].data = cache[cache_key[t2]].data

\* C22: a health check that reports "healthy" made an outbound dispatch of
\* its own, and the remote's last answer to it was a success with a
\* readable envelope.
C22_HealthyOnlyAfterLiveProbe ==
    \A t \in Tasks :
        (Finished(t) /\ call[t].via = "health" /\ result[t].health = "healthy")
        => /\ dispatches[t] >= 1
           /\ trace[t] # <<>>
           /\ Answered(Last(trace[t]), 200)
           /\ Last(trace[t]).envelope = "ok"

\* C23: two valid requests with the same cache key have the same animal, the
\* same traits up to their order, the same theme and the same count.
C23_KeySeparatesRequests ==
    \A t1, t2 \in Tasks :
        (Calling(t1) /\ Calling(t2) /\ cache_key[t1] = cache_key[t2])
        => /\ call[t1].req.animal = call[t2].req.animal
           /\ SameBag(call[t1].req.traits, call[t2].req.traits)
           /\ call[t1].req.theme = call[t2].req.theme
           /\ call[t1].req.num_names = call[t2].req.num_names

====
